---- MODULE Spec2Model ----
(***************************************************************************)
(* Model of the Minesweeper knowledge base of                              *)
(* "Project 1/minesweeper/minesweeper.py": the board oracle                *)
(* (Minesweeper), the Sentence class and MinesweeperAI with its            *)
(* add_knowledge inference loop and the two move queries.                  *)
(*                                                                         *)
(* A cell is a pair <<row, column>>.  A Sentence is a record               *)
(* [cells |-> set of cells, count |-> integer]; record equality is the     *)
(* Sentence.__eq__ of the source.  self.knowledge is a sequence of         *)
(* sentences in list order.                                                *)
(***************************************************************************)
EXTENDS Integers, FiniteSets, Sequences, TLC

\* Bounds of the explored boards.
MaxCells == 6
MaxMines == 2
\* Bound of the calls against the calling contract in one game.
MaxMisuse == 1

VARIABLES
    height,      \* Minesweeper.height / MinesweeperAI.height
    width,       \* Minesweeper.width / MinesweeperAI.width
    board,       \* Minesweeper.mines: the cells whose board[i][j] is True
    moves_made,  \* MinesweeperAI.moves_made
    mines,       \* MinesweeperAI.mines
    safes,       \* MinesweeperAI.safes
    knowledge,   \* MinesweeperAI.knowledge
    kb_updated,  \* the local kb_updated of add_knowledge
    pc,          \* position of the caller: "idle", or inside the while loop
                 \* of add_knowledge at "scan" (line 234) or "infer" (line 262)
    ret,         \* the last value returned by make_safe_move / make_random_move
    zero_cells,  \* history: the cells of S1.cells - S2.cells over the pairs of
                 \* sentences with S2.cells a proper subset of S1.cells and the
                 \* same count that knowledge has held so far
    entry,       \* history: <<moves_made, safes, mines, knowledge>> as they
                 \* were when the last call of add_knowledge began, kept for a
                 \* call that repeats a probe; <<>> for any other call
    args         \* <<cell, count>>, the arguments of add_knowledge, from the
                 \* call to the first pass of its while loop; <<>> otherwise

vars == <<height, width, board, moves_made, mines, safes, knowledge,
          kb_updated, pc, ret, zero_cells, entry, args>>

\* Python's None, as returned by the move queries.
None == <<>>

\* No move query has returned since the last add_knowledge.
NoRet == [op |-> "none", val |-> None]

\* The cells of an h x w grid: 0 <= i < h and 0 <= j < w.
Grid(h, w) == {<<i, j>> : i \in 0..(h - 1), j \in 0..(w - 1)}

\* The elements of a list.
Range(seq) == {seq[i] : i \in 1..Len(seq)}

\* Sentence.__init__
Sentence(cells, count) == [cells |-> cells, count |-> count]

\* The cells that subset inference over K settles as safe: S1.cells - S2.cells
\* for the sentences S1, S2 of K with S2.cells a proper subset of S1.cells and
\* S1.count = S2.count.
zero_diff(K) ==
    UNION {K[i].cells \ K[j].cells :
             <<i, j>> \in {p \in (1..Len(K)) \X (1..Len(K)) :
                             /\ K[p[2]].cells \subseteq K[p[1]].cells
                             /\ K[p[2]].cells # K[p[1]].cells
                             /\ K[p[1]].count = K[p[2]].count}}

\* Minesweeper.is_mine
is_mine(cell) == cell \in board

\* The in-bounds cells within one row and column of cell, cell excluded
\* (the double loop of add_knowledge, the same as that of nearby_mines).
neighboring_cells(cell) ==
    {nc \in {<<r, c>> : r \in (cell[1] - 1)..(cell[1] + 1),
                        c \in (cell[2] - 1)..(cell[2] + 1)} :
        /\ nc # cell
        /\ 0 <= nc[1] /\ nc[1] < height
        /\ 0 <= nc[2] /\ nc[2] < width}

\* Minesweeper.nearby_mines
nearby_mines(cell) ==
    Cardinality({n \in {<<i, j>> : i \in (cell[1] - 1)..(cell[1] + 1),
                                   j \in (cell[2] - 1)..(cell[2] + 1)} :
        /\ n # cell
        /\ 0 <= n[1] /\ n[1] < height /\ 0 <= n[2] /\ n[2] < width
        /\ n \in board})

\* Sentence.known_mines without the comparison against the number of cells:
\* any positive count makes every cell a mine.
Sentence_known_mines_positive(s) ==
    IF s.count > 0 THEN s.cells ELSE {}

\* Sentence.known_mines
Sentence_known_mines(s) ==
    IF s.count = Cardinality(s.cells) THEN s.cells ELSE {}

\* Sentence.known_safes with the guard on self.cells inverted.
Sentence_known_safes_inverted(s) ==
    IF s.count = 0 /\ s.cells = {} THEN s.cells ELSE {}

\* Sentence.known_safes
Sentence_known_safes(s) ==
    IF s.count = 0 /\ s.cells # {} THEN s.cells ELSE {}

\* Sentence.mark_mine that forgets count -= 1.
Sentence_mark_mine_keeps_count(s, cell) ==
    IF cell \in s.cells
    THEN [cells |-> s.cells \ {cell}, count |-> s.count]
    ELSE s

\* Sentence.mark_mine
Sentence_mark_mine(s, cell) ==
    IF cell \in s.cells
    THEN [cells |-> s.cells \ {cell}, count |-> s.count - 1]
    ELSE s

\* Sentence.mark_safe that decrements count as mark_mine does.
Sentence_mark_safe_decrements(s, cell) ==
    IF cell \in s.cells
    THEN [cells |-> s.cells \ {cell}, count |-> s.count - 1]
    ELSE s

\* Sentence.mark_safe that leaves the cell in the sentence.
Sentence_mark_safe_keeps_cell(s, cell) == s

\* Sentence.mark_safe
Sentence_mark_safe(s, cell) ==
    IF cell \in s.cells
    THEN [cells |-> s.cells \ {cell}, count |-> s.count]
    ELSE s

\* Sentence.mark_mine applied for every cell of a set (the order of the calls
\* does not matter: each call removes its own cell and decrements once).
RECURSIVE Sentence_mark_mines(_, _)
Sentence_mark_mines(s, cs) ==
    IF cs = {} THEN s
    ELSE LET c == CHOOSE x \in cs : TRUE
         IN Sentence_mark_mines(Sentence_mark_mine(s, c), cs \ {c})

\* Sentence.mark_safe applied for every cell of a set.
RECURSIVE Sentence_mark_safes(_, _)
Sentence_mark_safes(s, cs) ==
    IF cs = {} THEN s
    ELSE LET c == CHOOSE x \in cs : TRUE
         IN Sentence_mark_safes(Sentence_mark_safe(s, c), cs \ {c})

\* MinesweeperAI.mark_mine that reduces the sentences and sets self.mines to
\* the cells marked by this pass.
mark_mine_replaces(K, M, ms) ==
    [knowledge |-> [i \in 1..Len(K) |-> Sentence_mark_mines(K[i], ms)],
     mines |-> ms]

\* MinesweeperAI.mark_mine that reduces the sentences and forgets
\* self.mines.add(cell).
mark_mine_no_add(K, M, ms) ==
    [knowledge |-> [i \in 1..Len(K) |-> Sentence_mark_mines(K[i], ms)],
     mines |-> M]

\* MinesweeperAI.mark_mine for every cell of ms, on a knowledge list K and a
\* mines set M: the resulting [knowledge, mines].
mark_mine(K, M, ms) ==
    [knowledge |-> [i \in 1..Len(K) |-> Sentence_mark_mines(K[i], ms)],
     mines |-> M \cup ms]

\* MinesweeperAI.mark_safe that updates the sentences and leaves safes alone.
mark_safe_no_add(K, S, ss) ==
    [knowledge |-> [i \in 1..Len(K) |-> Sentence_mark_safes(K[i], ss)],
     safes |-> S]

\* MinesweeperAI.mark_safe that adds to safes and leaves the sentences alone.
mark_safe_no_propagate(K, S, ss) ==
    [knowledge |-> K, safes |-> S \cup ss]

\* MinesweeperAI.mark_safe for every cell of ss, on a knowledge list K and a
\* safes set S: the resulting [knowledge, safes].
mark_safe(K, S, ss) ==
    [knowledge |-> [i \in 1..Len(K) |-> Sentence_mark_safes(K[i], ss)],
     safes |-> S \cup ss]

\* The list comprehension of line 260 without its filter.
NonEmpty_keeps_all(K) == K

\* [s for s in K if s.cells]
NonEmpty(K) == SelectSeq(K, LAMBDA s : s.cells # {})

\* The probe's sentence with count -= 1 for the neighbours in safes as well.
new_sentence_counts_safes(cell, count, M, S) ==
    LET nb == neighboring_cells(cell)
        invalid_cells == {nc \in nb : nc \in M \/ nc \in S}
    IN [cells |-> nb \ invalid_cells, count |-> count - Cardinality(invalid_cells)]

\* The probe's sentence without count -= 1 for the neighbours in mines.
new_sentence_keeps_count(cell, count, M, S) ==
    LET nb == neighboring_cells(cell)
        invalid_cells == {nc \in nb : nc \in M \/ nc \in S}
    IN [cells |-> nb \ invalid_cells, count |-> count]

\* The sentence add_knowledge builds for a probe (lines 207-224): the
\* neighbours that are neither known mines nor known safes, and the count less
\* one for every neighbour that is a known mine.
new_sentence(cell, count, M, S) ==
    LET nb == neighboring_cells(cell)
        invalid_cells == {nc \in nb : nc \in M \/ nc \in S}
    IN Sentence(nb \ invalid_cells, count - Cardinality(nb \cap M))

\* add_knowledge up to the while loop without the test "new_sentence not in
\* self.knowledge": the sentence is always appended.
AddKnowledge_always_appends(cell, count) ==
    /\ pc = "idle"
    /\ moves_made' = moves_made \cup {cell}
    /\ LET ms == mark_safe(knowledge, safes, {cell})
           ns == new_sentence(cell, count, mines, ms.safes)
       IN /\ safes' = ms.safes
          /\ knowledge' = Append(ms.knowledge, ns)
    /\ kb_updated' = TRUE
    /\ pc' = "scan"
    /\ ret' = NoRet
    /\ zero_cells' = zero_cells \cup zero_diff(knowledge')
    /\ args' = <<cell, count>>
    /\ UNCHANGED <<height, width, board, mines>>

\* add_knowledge up to the while loop (lines 197-227).
AddKnowledge(cell, count) ==
    /\ pc = "idle"
    /\ moves_made' = moves_made \cup {cell}
    /\ LET ms == mark_safe(knowledge, safes, {cell})
           ns == new_sentence(cell, count, mines, ms.safes)
       IN /\ safes' = ms.safes
          /\ knowledge' = IF ns \notin Range(ms.knowledge)
                          THEN Append(ms.knowledge, ns)
                          ELSE ms.knowledge
    /\ kb_updated' = TRUE
    /\ pc' = "scan"
    /\ ret' = NoRet
    /\ zero_cells' = zero_cells \cup zero_diff(knowledge')
    /\ args' = <<cell, count>>
    /\ UNCHANGED <<height, width, board, mines>>

\* The game loop's call: a cell of the grid that was not probed before and is
\* not a mine, with the count the board reports for it.
Probe ==
    \E cell \in Grid(height, width) \ (moves_made \cup board) :
        /\ AddKnowledge(cell, nearby_mines(cell))
        /\ entry' = <<>>

\* A call that repeats an observation: a cell that was probed before, with the
\* count the board reports for it.
Reprobe ==
    \E cell \in moves_made \ board :
        /\ AddKnowledge(cell, nearby_mines(cell))
        /\ entry' = <<moves_made, safes, mines, knowledge>>

\* Two cells one step outside the height x width grid: the one below its first
\* column and the one to the right of its first row.
OutsideGrid == {<<height, 0>>, <<0, width>>}

\* A call against the calling contract: a cell outside the grid, or a cell
\* that is already in mines, with the count nearby_mines computes for it.
Misuse ==
    /\ Cardinality(moves_made \ (Grid(height, width) \ board)) < MaxMisuse
    /\ \E cell \in (OutsideGrid \cup mines) \ moves_made :
          /\ AddKnowledge(cell, nearby_mines(cell))
          /\ entry' = <<>>

\* The sentences that the scan of one pass finds mines in (line 239).
scan_known_mines(K) ==
    UNION {Sentence_known_mines(K[i]) : i \in 1..Len(K)}

\* The sentences that the scan of one pass finds safes in (line 242, the elif).
scan_known_safes(K) ==
    UNION {Sentence_known_safes(K[i]) :
             i \in {j \in 1..Len(K) : Sentence_known_mines(K[j]) = {}}}

\* sentence.cells -= discarded, for every sentence (lines 246-252).
purge(K, M) ==
    [i \in 1..Len(K) |-> [cells |-> K[i].cells \ M, count |-> K[i].count]]

\* First half of one pass of the while loop (lines 234-260) on a knowledge
\* list K, a mines set M and a safes set S: the scan with its purge, the marks
\* and the drop of the empty sentences.
scan_pass(K, M, S) ==
    LET known_mines == scan_known_mines(K)
        known_safes == scan_known_safes(K)
        purged == purge(K, M)
        mm == mark_mine(purged, M, known_mines)
        ms == mark_safe(mm.knowledge, S, known_safes)
    IN [kb_updated |-> (known_mines # {} \/ known_safes # {} \/ purged # K),
        mines |-> mm.mines,
        safes |-> ms.safes,
        knowledge |-> NonEmpty(ms.knowledge)]

\* The while loop at line 234: the first half of a pass.
Scan ==
    /\ pc = "scan"
    /\ LET sp == scan_pass(knowledge, mines, safes)
       IN /\ kb_updated' = sp.kb_updated
          /\ mines' = sp.mines
          /\ safes' = sp.safes
          /\ knowledge' = sp.knowledge
          /\ zero_cells' = zero_cells \cup zero_diff(knowledge')
    /\ pc' = "infer"
    /\ args' = <<>>
    /\ UNCHANGED <<height, width, board, moves_made, ret, entry>>

\* The nested loops inferring only when s2 has a smaller count than s1.
RECURSIVE infer_from_smaller_count(_, _, _)
infer_from_smaller_count(K, k, inf) ==
    LET n == Len(K) IN
    IF k > n * n THEN inf
    ELSE LET s1 == K[((k - 1) \div n) + 1]
             s2 == K[((k - 1) % n) + 1]
             inference == [cells |-> s1.cells \ s2.cells,
                           count |-> s1.count - s2.count]
         IN IF /\ s1.cells # s2.cells
               /\ s2.cells \subseteq s1.cells
               /\ s2.count < s1.count
               /\ inference \notin Range(K)
               /\ inference \notin Range(inf)
            THEN infer_from_smaller_count(K, k + 1, Append(inf, inference))
            ELSE infer_from_smaller_count(K, k + 1, inf)

\* The nested loops inferring from every pair of sentences that share a cell,
\* s2.cells a subset of s1.cells or not.
RECURSIVE infer_from_overlap(_, _, _)
infer_from_overlap(K, k, inf) ==
    LET n == Len(K) IN
    IF k > n * n THEN inf
    ELSE LET s1 == K[((k - 1) \div n) + 1]
             s2 == K[((k - 1) % n) + 1]
             inference == [cells |-> s1.cells \ s2.cells,
                           count |-> s1.count - s2.count]
         IN IF /\ s1.cells # s2.cells
               /\ s2.cells \cap s1.cells # {}
               /\ inference \notin Range(K)
               /\ inference \notin Range(inf)
            THEN infer_from_overlap(K, k + 1, Append(inf, inference))
            ELSE infer_from_overlap(K, k + 1, inf)

\* The nested loops with the inference's count taken from s1 alone.
RECURSIVE infer_from_s1_count(_, _, _)
infer_from_s1_count(K, k, inf) ==
    LET n == Len(K) IN
    IF k > n * n THEN inf
    ELSE LET s1 == K[((k - 1) \div n) + 1]
             s2 == K[((k - 1) % n) + 1]
             inference == [cells |-> s1.cells \ s2.cells, count |-> s1.count]
         IN IF /\ s1.cells # s2.cells
               /\ s2.cells \subseteq s1.cells
               /\ inference \notin Range(K)
               /\ inference \notin Range(inf)
            THEN infer_from_s1_count(K, k + 1, Append(inf, inference))
            ELSE infer_from_s1_count(K, k + 1, inf)

\* The nested loops without the test "inference not in inferences".
RECURSIVE infer_from_repeats(_, _, _)
infer_from_repeats(K, k, inf) ==
    LET n == Len(K) IN
    IF k > n * n THEN inf
    ELSE LET s1 == K[((k - 1) \div n) + 1]
             s2 == K[((k - 1) % n) + 1]
             inference == [cells |-> s1.cells \ s2.cells,
                           count |-> s1.count - s2.count]
         IN IF /\ s1.cells # s2.cells
               /\ s2.cells \subseteq s1.cells
               /\ inference \notin Range(K)
            THEN infer_from_repeats(K, k + 1, Append(inf, inference))
            ELSE infer_from_repeats(K, k + 1, inf)

\* The inferences list after the pairs (s1, s2) numbered k..n*n of the nested
\* loops over K (lines 263-269), given the list inf built by the pairs before.
RECURSIVE infer_from(_, _, _)
infer_from(K, k, inf) ==
    LET n == Len(K) IN
    IF k > n * n THEN inf
    ELSE LET s1 == K[((k - 1) \div n) + 1]
             s2 == K[((k - 1) % n) + 1]
             inference == Sentence(s1.cells \ s2.cells, s1.count - s2.count)
         IN IF /\ s1.cells # s2.cells
               /\ s2.cells \subseteq s1.cells
               /\ inference \notin Range(K)
               /\ inference \notin Range(inf)
            THEN infer_from(K, k + 1, Append(inf, inference))
            ELSE infer_from(K, k + 1, inf)

\* The inferences list of one pass.
inferences(K) == infer_from(K, 1, <<>>)

\* The second half of a pass with the loop test looking at the scan's
\* kb_updated only: new inferences do not keep the loop going.
Infer_ignores_new ==
    /\ pc = "infer"
    /\ LET inf == inferences(knowledge)
       IN /\ knowledge' = knowledge \o inf
          /\ kb_updated' = kb_updated
          /\ pc' = IF kb_updated THEN "scan" ELSE "idle"
          /\ zero_cells' = zero_cells \cup zero_diff(knowledge')
    /\ UNCHANGED <<height, width, board, moves_made, mines, safes, ret, entry,
                   args>>

\* Second half of one pass (lines 262-271) and the loop test (line 233).
Infer ==
    /\ pc = "infer"
    /\ LET inf == inferences(knowledge)
       IN /\ knowledge' = knowledge \o inf
          /\ kb_updated' = (kb_updated \/ inf # <<>>)
          /\ pc' = IF kb_updated \/ inf # <<>> THEN "scan" ELSE "idle"
          /\ zero_cells' = zero_cells \cup zero_diff(knowledge')
    /\ UNCHANGED <<height, width, board, moves_made, mines, safes, ret, entry,
                   args>>

\* make_safe_move choosing among safes, the cells already probed included.
make_safe_move_any_safe ==
    /\ pc = "idle"
    /\ IF safes # {}
       THEN \E c \in safes : ret' = [op |-> "safe", val |-> c]
       ELSE ret' = [op |-> "safe", val |-> None]
    /\ UNCHANGED <<height, width, board, moves_made, mines, safes, knowledge,
                   kb_updated, pc, zero_cells, entry, args>>

\* make_safe_move that pops the cell out of self.safes itself.
make_safe_move_pops_safes ==
    /\ pc = "idle"
    /\ LET cand == safes \ moves_made
       IN IF cand # {}
          THEN \E c \in cand : /\ ret' = [op |-> "safe", val |-> c]
                                /\ safes' = safes \ {c}
          ELSE ret' = [op |-> "safe", val |-> None] /\ safes' = safes
    /\ UNCHANGED <<height, width, board, moves_made, mines, knowledge,
                   kb_updated, pc, zero_cells, entry, args>>

\* MinesweeperAI.make_safe_move: set.pop() returns any element.
make_safe_move ==
    /\ pc = "idle"
    /\ LET cand == safes \ moves_made
       IN IF cand # {}
          THEN \E c \in cand : ret' = [op |-> "safe", val |-> c]
          ELSE ret' = [op |-> "safe", val |-> None]
    /\ UNCHANGED <<height, width, board, moves_made, mines, safes, knowledge,
                   kb_updated, pc, zero_cells, entry, args>>

\* The cells make_random_move chooses among (lines 296-303).
available_cells ==
    ({<<r, c>> : r \in 0..(width - 1), c \in 0..(height - 1)}
        \ moves_made) \ mines

\* MinesweeperAI.make_random_move
make_random_move ==
    /\ pc = "idle"
    /\ IF available_cells # {}
       THEN \E c \in available_cells : ret' = [op |-> "random", val |-> c]
       ELSE ret' = [op |-> "random", val |-> None]
    /\ UNCHANGED <<height, width, board, moves_made, mines, safes, knowledge,
                   kb_updated, pc, zero_cells, entry, args>>

\* Minesweeper.__init__ and MinesweeperAI.__init__: a board of any height and
\* width with at most MaxCells cells, any placement of at most MaxMines mines
\* on it, and an empty knowledge base.
Init ==
    /\ height \in 1..MaxCells
    /\ width \in 1..(MaxCells \div height)
    /\ board \in {b \in SUBSET Grid(height, width) : Cardinality(b) <= MaxMines}
    /\ moves_made = {}
    /\ mines = {}
    /\ safes = {}
    /\ knowledge = <<>>
    /\ kb_updated = FALSE
    /\ pc = "idle"
    /\ ret = NoRet
    /\ zero_cells = {}
    /\ entry = <<>>
    /\ args = <<>>

Next ==
    \/ Probe
    \/ Scan
    \/ Infer
    \/ make_safe_move
    \/ make_random_move

Spec == Init /\ [][Next]_vars

\* The while loop of add_knowledge runs on once entered.
LiveSpec == Spec /\ WF_vars(Scan) /\ WF_vars(Infer)

\* The game loop, with calls that repeat an earlier probe.
NextRepeat ==
    \/ Probe
    \/ Reprobe
    \/ Scan
    \/ Infer
    \/ make_safe_move
    \/ make_random_move

RepeatSpec == Init /\ [][NextRepeat]_vars

\* Any sequence of add_knowledge calls: calls that follow the contract, calls
\* that repeat a probe and calls against the contract.
NextAny ==
    \/ Probe
    \/ Reprobe
    \/ Misuse
    \/ Scan
    \/ Infer

AnySpec == Init /\ [][NextAny]_vars

(***************************************************************************)
(* A Sentence on its own: knowledge holds the one sentence, pc is          *)
(* "sentence", and the two mutators are called on it with any cell.        *)
(***************************************************************************)

\* A sentence over cells of the grid with 0 <= count <= |cells|.
InitSentence ==
    /\ height \in 1..MaxCells
    /\ width \in 1..(MaxCells \div height)
    /\ board = {}
    /\ moves_made = {}
    /\ mines = {}
    /\ safes = {}
    /\ \E cells \in SUBSET Grid(height, width) :
          \E count \in 0..Cardinality(cells) :
              knowledge = <<Sentence(cells, count)>>
    /\ kb_updated = FALSE
    /\ pc = "sentence"
    /\ ret = NoRet
    /\ zero_cells = {}
    /\ entry = <<>>
    /\ args = <<>>

\* A call of Sentence.mark_mine(cell) on the sentence.
SentenceMarkMine ==
    /\ pc = "sentence"
    /\ \E cell \in Grid(height, width) :
          /\ knowledge' = <<Sentence_mark_mine(knowledge[1], cell)>>
          /\ ret' = [op |-> "mark_mine", val |-> cell]
    /\ UNCHANGED <<height, width, board, moves_made, mines, safes,
                   kb_updated, pc, zero_cells, entry, args>>

\* A call of Sentence.mark_safe(cell) on the sentence.
SentenceMarkSafe ==
    /\ pc = "sentence"
    /\ \E cell \in Grid(height, width) :
          /\ knowledge' = <<Sentence_mark_safe(knowledge[1], cell)>>
          /\ ret' = [op |-> "mark_safe", val |-> cell]
    /\ UNCHANGED <<height, width, board, moves_made, mines, safes,
                   kb_updated, pc, zero_cells, entry, args>>

NextSentence ==
    \/ SentenceMarkMine
    \/ SentenceMarkSafe

SentenceSpec == InitSentence /\ [][NextSentence]_vars

(***************************************************************************)
(* Properties of the knowledge base.                                       *)
(***************************************************************************)

\* A call of add_knowledge has returned: the caller is between calls and at
\* least one cell was probed.
Returned == pc = "idle" /\ moves_made # {}

\* C1: soundness of the derived facts.  After each protocol-following call of
\* add_knowledge every cell in mines is a mine of the board and no cell in
\* safes is one, so make_safe_move never returns a mine.
C1_Soundness ==
    /\ pc = "idle" => (mines \subseteq board /\ safes \cap board = {})
    /\ (ret.op = "safe" /\ ret.val # None) => ~is_mine(ret.val)

\* A returned call after which a mine and an unprobed safe are both known and
\* make_safe_move has handed out a cell.
C1_Witness ==
    /\ Returned
    /\ mines # {}
    /\ safes \ moves_made # {}
    /\ ret.op = "safe" /\ ret.val # None

\* C2: after any sequence of protocol-following calls, safes and mines are
\* disjoint.
C2_Disjoint == pc = "idle" => safes \cap mines = {}

\* A returned call with both sets non-empty and the mines marked by the loop.
C2_Witness == Returned /\ mines # {} /\ Cardinality(safes) >= 2

\* C3: after any sequence of protocol-following calls, every sentence in
\* knowledge has 0 <= count <= |cells|.
C3_CountInRange ==
    pc = "idle" =>
        \A i \in 1..Len(knowledge) :
            /\ 0 <= knowledge[i].count
            /\ knowledge[i].count <= Cardinality(knowledge[i].cells)

\* A returned call that leaves several sentences, after mark_mine and
\* mark_safe have reduced sentences in place.
C3_Witness ==
    /\ Returned
    /\ Len(knowledge) >= 2
    /\ mines # {}
    /\ \E i \in 1..Len(knowledge) : knowledge[i].count >= 1

\* C4 as claimed: after any sequence of protocol-following calls no two
\* sentences of knowledge are equal, sentences reduced in place included.
C4_NoEqualSentences ==
    pc = "idle" =>
        \A i, j \in 1..Len(knowledge) : i # j => knowledge[i] # knowledge[j]

\* C4 as amended: uniqueness is enforced on insertion only.  The sentence
\* add_knowledge appends for a probe equals no sentence already in the list,
\* and every sentence a pass of subset inference appends equals no sentence
\* before it in the list (the list of that moment and the inferences appended
\* earlier in the same pass).
C4_UniqueOnInsertion ==
    [][/\ (pc = "idle" /\ pc' = "scan" /\ Len(knowledge') > Len(knowledge)) =>
            \A j \in 1..Len(knowledge) :
                knowledge'[j] # knowledge'[Len(knowledge')]
       /\ pc = "infer" =>
            \A i \in (Len(knowledge) + 1)..Len(knowledge') :
                \A j \in 1..(i - 1) : knowledge'[j] # knowledge'[i]]_vars

\* A returned call that leaves two equal sentences in knowledge: each was
\* unlike the others when it was inserted, and the marks made them equal.
C4_Witness ==
    /\ Returned
    /\ \E i, j \in 1..Len(knowledge) : i # j /\ knowledge[i] = knowledge[j]

\* C5: when a protocol-following call returns, no cell of any sentence of
\* knowledge is in safes or in mines.
C5_ResolvedPurged ==
    pc = "idle" =>
        \A i \in 1..Len(knowledge) :
            knowledge[i].cells \cap (safes \cup mines) = {}

\* A returned call that keeps a sentence although the loop resolved cells
\* beyond the probed ones.
C5_Witness ==
    /\ Returned
    /\ knowledge # <<>>
    /\ (safes \ moves_made # {} \/ mines # {})

\* C6: every protocol-following call of add_knowledge terminates: once the
\* while loop is entered, a pass that updates nothing is reached and the call
\* returns.
C6_Terminates == (pc # "idle") ~> (pc = "idle")

\* A call that needed several passes (it marked a mine) has returned.
C6_Witness == Returned /\ mines # {} /\ Cardinality(moves_made) >= 2

\* C7 as claimed: make_random_move returns a cell of the height x width grid
\* that is neither in moves_made nor in mines whenever there is one, and None
\* only when there is none.
C7_RandomMoveInGrid ==
    ret.op = "random" =>
        LET free == Grid(height, width) \ (moves_made \cup mines)
        IN /\ free # {} => ret.val \in free
           /\ ret.val = None => free = {}

\* C8: make_safe_move returns a cell of safes that is not in moves_made when
\* there is one, and None exactly when safes is a subset of moves_made.
C8_SafeMove ==
    ret.op = "safe" =>
        /\ safes \ moves_made # {} => ret.val \in safes \ moves_made
        /\ ret.val = None <=> safes \subseteq moves_made

\* make_safe_move has handed out a cell while probed cells were in safes too.
C8_Witness ==
    /\ ret.op = "safe"
    /\ ret.val # None
    /\ moves_made # {}
    /\ Cardinality(safes \ moves_made) >= 2

\* C9: idempotence of the fixpoint.  In the state a protocol-following call
\* leaves, one more pass of the loop (scan, purge, marks, drop of the empty
\* sentences, subset inference) updates nothing: safes, mines and knowledge
\* with its order stay as they are (the loop never writes moves_made).
C9_Idempotent ==
    pc = "idle" =>
        LET sp == scan_pass(knowledge, mines, safes)
            inf == inferences(sp.knowledge)
        IN /\ ~sp.kb_updated
           /\ inf = <<>>
           /\ sp.mines = mines
           /\ sp.safes = safes
           /\ sp.knowledge \o inf = knowledge

\* A returned call that leaves a sentence, its proper subset and their
\* difference in knowledge.
C9_Witness ==
    /\ Returned
    /\ \E i, j \in 1..Len(knowledge) :
          /\ knowledge[j].cells \subseteq knowledge[i].cells
          /\ knowledge[j].cells # knowledge[i].cells
          /\ Sentence(knowledge[i].cells \ knowledge[j].cells,
                      knowledge[i].count - knowledge[j].count)
                \in Range(knowledge)

\* C10: subset inference yields safes.  When subset inference runs on a
\* knowledge that holds S1 and S2 with S2.cells a proper subset of S1.cells and
\* S1.count = S2.count, the sentence {S1.cells - S2.cells} = 0 is in knowledge
\* after it; and when the loop ends, every cell of such a difference that
\* knowledge has held is in safes.
C10_SubsetYieldsSafes ==
    /\ [][pc = "infer" =>
            \A i, j \in 1..Len(knowledge) :
                (/\ knowledge[j].cells \subseteq knowledge[i].cells
                 /\ knowledge[j].cells # knowledge[i].cells
                 /\ knowledge[i].count = knowledge[j].count)
                => Sentence(knowledge[i].cells \ knowledge[j].cells, 0)
                     \in Range(knowledge')]_vars
    /\ [](pc = "idle" => zero_cells \subseteq safes)

\* A returned call during which knowledge held such a pair and whose
\* difference is now safe without having been probed.
C10_Witness ==
    /\ Returned
    /\ zero_cells \ moves_made # {}
    /\ zero_cells \subseteq safes

\* The cells that occur in the sentences of a knowledge list.
cells_of(K) == UNION {K[i].cells : i \in 1..Len(K)}

\* C11: a sentence that holds at the start of a pass with a non-empty cell set
\* and count = |cells| has, after that single pass, every cell in mines and
\* in no sentence of knowledge.  The scan half marks the cells and removes
\* them from every sentence; the inference half keeps mines and brings no
\* cell into knowledge that the sentences did not hold.
C11_FullSentenceIsMines ==
    [][/\ pc = "scan" =>
            \A i \in 1..Len(knowledge) :
                (/\ knowledge[i].cells # {}
                 /\ knowledge[i].count = Cardinality(knowledge[i].cells))
                => /\ knowledge[i].cells \subseteq mines'
                   /\ knowledge[i].cells \cap cells_of(knowledge') = {}
       /\ pc = "infer" =>
            /\ mines' = mines
            /\ cells_of(knowledge') \subseteq cells_of(knowledge)]_vars

\* The scan half of a pass has just marked two or more mines, all of them
\* out of the sentences.
C11_Witness ==
    /\ pc = "infer"
    /\ kb_updated
    /\ Cardinality(mines) >= 2
    /\ mines \cap cells_of(knowledge) = {}

\* C12 as claimed: a call of add_knowledge against the calling contract, with
\* a cell outside the grid or a cell that is already in mines, is rejected: it
\* adds no cell to moves_made or safes and inserts no sentence.
C12_MisuseRejected ==
    [][(/\ pc = "idle"
        /\ pc' = "scan"
        /\ \E cell \in moves_made' \ moves_made :
              cell \notin Grid(height, width) \/ cell \in mines)
       => UNCHANGED <<moves_made, safes, knowledge>>]_vars

\* C13: repeating an observation is a no-op.  When a call of add_knowledge for
\* a cell already in moves_made, with the count the board reports for it, has
\* returned, moves_made, safes, mines and knowledge are what they were when
\* the call began.
C13_RepeatNoOp ==
    (pc = "idle" /\ entry # <<>>) =>
        entry = <<moves_made, safes, mines, knowledge>>

\* A repeated call has returned in a state that holds sentences and a mine.
C13_Witness ==
    /\ pc = "idle"
    /\ entry # <<>>
    /\ knowledge # <<>>
    /\ mines # {}

\* C14: when a protocol-following call returns, knowledge holds no sentence
\* with an empty cell set; the empty sentence built for a probe whose
\* neighbours are all resolved is not retained.
C14_NoEmptySentence ==
    pc = "idle" => \A i \in 1..Len(knowledge) : knowledge[i].cells # {}

\* add_knowledge has just put a sentence without cells into knowledge while a
\* mine was known: the loop is about to run on it.
C14_Witness ==
    /\ pc = "scan"
    /\ mines # {}
    /\ \E i \in 1..Len(knowledge) : knowledge[i].cells = {}

\* C15: probing a cell with reported count 0 marks all its neighbours safe by
\* the time add_knowledge returns: after a returned call every probed cell with
\* no mine around it has all its in-bounds neighbours in safes; so on the
\* mine-free 1x3 board, after probing (0,0), its neighbour (0,1) is safe.
C15_ZeroCountNeighboursSafe ==
    pc = "idle" =>
        \A cell \in moves_made :
            nearby_mines(cell) = 0 => neighboring_cells(cell) \subseteq safes

\* The mine-free 1x3 board after the probe of its leftmost cell returned.
C15_Witness ==
    /\ height = 1 /\ width = 3 /\ board = {}
    /\ pc = "idle"
    /\ moves_made = {<<0, 0>>}
    /\ <<0, 1>> \in safes

\* C16: make_safe_move is a pure query: a call of it, whether it returns a
\* cell or None, leaves moves_made, safes, mines and knowledge unchanged.
C16_SafeMovePure ==
    [][(pc = "idle" /\ pc' = "idle" /\ ret'.op = "safe")
       => UNCHANGED <<moves_made, safes, mines, knowledge>>]_vars

\* make_safe_move has returned None in a state with sentences.
C16_Witness ==
    /\ ret.op = "safe"
    /\ ret.val = None
    /\ knowledge # <<>>

\* C17 as claimed: on a sentence with 0 <= count <= |cells|, mark_safe(cell)
\* for every cell, and mark_mine(cell) for a cell whose removal keeps
\* count >= 0, leave a sentence with 0 <= count <= |cells|.
C17_MutatorsPreserve ==
    [][(/\ pc = "sentence"
        /\ 0 <= knowledge[1].count
        /\ knowledge[1].count <= Cardinality(knowledge[1].cells)
        /\ \/ ret'.op = "mark_safe"
           \/ /\ ret'.op = "mark_mine"
              /\ ret'.val \in knowledge[1].cells => knowledge[1].count >= 1)
       => /\ 0 <= knowledge'[1].count
          /\ knowledge'[1].count <= Cardinality(knowledge'[1].cells)]_vars

\* C17 as amended: mark_safe(cell) preserves the invariant when it is called
\* for a cell whose removal keeps count <= |cells| (the cell is not in the
\* sentence, or count < |cells|); mark_mine(cell) preserves it when it is
\* called for a cell whose removal keeps count >= 0.
C17_MutatorsPreserveWhenTrue ==
    [][(/\ pc = "sentence"
        /\ 0 <= knowledge[1].count
        /\ knowledge[1].count <= Cardinality(knowledge[1].cells)
        /\ \/ /\ ret'.op = "mark_safe"
              /\ ret'.val \in knowledge[1].cells =>
                    knowledge[1].count < Cardinality(knowledge[1].cells)
           \/ /\ ret'.op = "mark_mine"
              /\ ret'.val \in knowledge[1].cells => knowledge[1].count >= 1)
       => /\ 0 <= knowledge'[1].count
          /\ knowledge'[1].count <= Cardinality(knowledge'[1].cells)]_vars

\* mark_safe has removed a cell from a sentence that still has cells and a
\* positive count within them.
C17_Witness ==
    /\ pc = "sentence"
    /\ ret.op = "mark_safe"
    /\ ret.val \notin knowledge[1].cells
    /\ knowledge[1].count >= 1
    /\ knowledge[1].count <= Cardinality(knowledge[1].cells)
    /\ Cardinality(knowledge[1].cells) < Cardinality(Grid(height, width))

\* C18: after any sequence of add_knowledge calls, whatever the cells and
\* counts passed, moves_made is a subset of safes.
C18_MovesMadeSafe == moves_made \subseteq safes

\* Three calls have returned, one of them for a cell outside the grid or a
\* cell known to be a mine.
C18_Witness ==
    /\ pc = "idle"
    /\ Cardinality(moves_made) >= 3
    /\ moves_made \ (Grid(height, width) \ mines) # {}

\* C19: the step of add_knowledge(cell, count) that builds the sentence leaves
\* in knowledge the sentence whose cells are the in-bounds 8-neighbours of
\* cell, cell excluded, less mines and less safes with cell in it, and whose
\* count is the reported count less the number of neighbours in mines; when
\* the step appends a sentence, it is that one.
C19_SentenceBuilt ==
    [][(pc = "idle" /\ pc' = "scan") =>
         \A cell \in moves_made' \ moves_made :
             LET nb == {n \in Grid(height, width) :
                          /\ n # cell
                          /\ n[1] - cell[1] \in -1..1
                          /\ n[2] - cell[2] \in -1..1}
                 built == [cells |-> nb \ (mines \cup safes \cup {cell}),
                           count |-> nearby_mines(cell) - Cardinality(nb \cap mines)]
             IN /\ built \in Range(knowledge')
                /\ Len(knowledge') > Len(knowledge) =>
                      knowledge' = Append(SubSeq(knowledge', 1, Len(knowledge)), built)]_vars

\* add_knowledge has built the sentence for a cell that has a neighbour in
\* mines, another in safes and a third in neither, and has appended it; the
\* first pass of the loop has not started.
C19_Witness ==
    /\ pc = "scan"
    /\ args # <<>>
    /\ neighboring_cells(args[1]) \cap mines # {}
    /\ neighboring_cells(args[1]) \cap safes # {}
    /\ knowledge # <<>>
    /\ knowledge[Len(knowledge)].cells =
          neighboring_cells(args[1]) \ (mines \cup safes)
    /\ knowledge[Len(knowledge)].cells # {}
    /\ knowledge[Len(knowledge)].count < args[2]

\* C20: when an add_knowledge call of the game loop has returned, for every
\* two sentences S1, S2 of knowledge with S2.cells a proper subset of
\* S1.cells, the sentence (S1.cells - S2.cells, S1.count - S2.count) is in
\* knowledge.
C20_SubsetClosed ==
    pc = "idle" =>
        \A i, j \in 1..Len(knowledge) :
            (knowledge[j].cells \subseteq knowledge[i].cells
             /\ knowledge[j].cells # knowledge[i].cells)
            => [cells |-> knowledge[i].cells \ knowledge[j].cells,
                count |-> knowledge[i].count - knowledge[j].count]
                  \in Range(knowledge)

\* A call has returned with a sentence in knowledge whose cells are a proper
\* subset of another's.
C20_Witness ==
    /\ pc = "idle"
    /\ \E i, j \in 1..Len(knowledge) :
          /\ knowledge[j].cells \subseteq knowledge[i].cells
          /\ knowledge[j].cells # knowledge[i].cells

\* C21: on a fixed board, in every state that calls of the game loop lead to,
\* between the passes of a call as well as after it, each sentence of
\* knowledge has count equal to the number of mines of the board among its
\* cells.
C21_SentencesTrue ==
    \A i \in 1..Len(knowledge) :
        knowledge[i].count = Cardinality(knowledge[i].cells \cap board)

\* Two calls have returned and knowledge holds two sentences with a mine or
\* more each, the cells of one a proper subset of the other's and its count
\* the smaller, so that the sentence derived from them has a mine as well.
C21_Witness ==
    /\ pc = "idle"
    /\ Cardinality(moves_made) >= 2
    /\ \E i, j \in 1..Len(knowledge) :
          /\ knowledge[j].cells \subseteq knowledge[i].cells
          /\ knowledge[j].cells # knowledge[i].cells
          /\ knowledge[j].count >= 1
          /\ knowledge[i].count > knowledge[j].count

\* C22: over any sequence of add_knowledge calls, no step takes an element
\* out of moves_made, safes or mines, and a call adds its cell and nothing
\* else to moves_made, at its start.
C22_Monotone ==
    [][/\ moves_made \subseteq moves_made'
       /\ safes \subseteq safes'
       /\ mines \subseteq mines'
       /\ IF pc = "idle" /\ pc' = "scan"
          THEN moves_made' = moves_made \cup {args'[1]}
          ELSE moves_made' = moves_made]_vars

\* Three calls have returned, and both mines and safes hold cells that were
\* never probed.
C22_Witness ==
    /\ pc = "idle"
    /\ Cardinality(moves_made) >= 3
    /\ mines \ moves_made # {}
    /\ safes \ moves_made # {}

====
